---- MODULE Spec2Model ----
(***************************************************************************)
(* Model of the in-browser HLS download pipeline of the extension's        *)
(* service worker (src/extension/background.js) and of the offscreen       *)
(* handlers it talks to (src/extension/mediaDetector.js).                  *)
(*                                                                         *)
(* A session is one run of handleDownload/downloadHLS for one video.  The  *)
(* service worker is single threaded: every action below is one handler    *)
(* or one continuation of an async function, run from the event that       *)
(* resumes it up to the next await.                                        *)
(***************************************************************************)
EXTENDS Integers, Sequences, FiniteSets, TLC

\* ------------------------------------------------------------------ bounds
\* Longest media playlist the network serves.
MaxSeg == 3

\* The videos the popup may ask for, and the runs of handleDownload.  The two
\* runs are for the same video or for different ones.
Urls == {"u1", "u2"}
Sessions == {"s1", "s2"}
Requested(s) == IF s = "s1" THEN {"u1"} ELSE Urls

\* --------------------------------------------------------- program constant
\* background.js:330  if (buf.byteLength < 1000)
HtmlGuardLimit == 1000

VARIABLES
    activeDownloads,  \* url -> "absent" | "live" ({cancelled:false}) | "cancelled" ({cancelled:true})
    sess,             \* per run of handleDownload: its locals and what it emitted
    mux,              \* the offscreen document: the request it handles, the handler's locals, its response
    parser,           \* an HLSParser object and what its methods returned
    patch,            \* a call of patchDuration: its arguments and what it returned
    idb,              \* the offscreen document's clock, its DownloadDB store and the requests that use it
    sink,             \* filenameOverrides, the downloads asked of chrome.downloads and the blob URLs made for them
    loop,             \* the segment loop of downloadHLS on its own: its counters and the progress events it sent
    detect            \* detectedMedia and the chrome.tabs.get callbacks still to come

vars == <<activeDownloads, sess, mux, parser, patch, idb, sink, loop, detect>>

\* ------------------------------------------------------- manifest text
\* A playlist is a sequence of lines; a line is its directive and its value.
StreamInf(bw) == [k |-> "#EXT-X-STREAM-INF", v |-> bw]   \* ...BANDWIDTH=bw
\* #EXT-X-STREAM-INF:AVERAGE-BANDWIDTH=avg,BANDWIDTH=bw
StreamInfAvg(avg, bw) == [k |-> "#EXT-X-STREAM-INF", v |-> bw, avg |-> avg]
ExtInf(d)     == [k |-> "#EXTINF", v |-> d]
KeyLine       == [k |-> "#EXT-X-KEY", v |-> 0]
Header        == [k |-> "#EXTM3U", v |-> 0]
Blank         == [k |-> "", v |-> 0]
Uri(u)        == [k |-> "uri", v |-> u]

RECURSIVE MediaLines(_)
MediaLines(n) == IF n = 0 THEN <<>> ELSE MediaLines(n - 1) \o <<ExtInf(4), Uri(n)>>

Media(n)    == <<Header>> \o MediaLines(n) \o <<Blank>>
MediaKey(n) == <<Header, KeyLine>> \o MediaLines(n)
Master      == <<Header, StreamInf(2), Uri(101)>>
MasterKey   == <<Header, KeyLine, StreamInf(2), Uri(101)>>

MasterTie   == <<Header, StreamInf(1), Uri(101), StreamInf(3), Uri(102), StreamInf(3), Uri(103)>>
MasterAvg   == <<Header, StreamInfAvg(1, 3), Uri(101), StreamInfAvg(2, 2), Uri(102)>>

\* What a manifest fetch may return as text.
Manifests == {Media(0), Media(MaxSeg), MediaKey(MaxSeg), Master, MasterKey}

\* What the fetch of video.url may return as well: masters of several variants.
FirstManifests == Manifests \cup {MasterTie, MasterAvg}

\* lines[i].match(/BANDWIDTH=(\d+)/)[1]: the digits after the first
\* "BANDWIDTH=" of the line, which are those of AVERAGE-BANDWIDTH when that
\* attribute is written before BANDWIDTH.
BandwidthMatch(line) ==
    IF "avg" \in DOMAIN line THEN line.avg ELSE line.v

\* text.includes('#EXT-X-STREAM-INF')
IsMaster(text) == \E j \in 1..Len(text) : text[j].k = "#EXT-X-STREAM-INF"

\* text.includes('#EXT-X-KEY')
HasKey(text) == \E j \in 1..Len(text) : text[j].k = "#EXT-X-KEY"

\* The variant loop of downloadHLS after lines 1..n: maxH and bestUrl.  bestUrl is
\* the line that follows the best variant directive (lines[i + 1]?.trim());
\* Blank stands for null, undefined and '', which "if (bestUrl)" all refuse.
RECURSIVE BestScan(_, _)
BestScan(text, n) ==
    IF n = 0 THEN [maxH |-> 0, bestUrl |-> Blank]
    ELSE LET prev == BestScan(text, n - 1)
             currentUrl == IF n + 1 <= Len(text) THEN text[n + 1] ELSE Blank
         IN IF text[n].k = "#EXT-X-STREAM-INF" /\ BandwidthMatch(text[n]) > prev.maxH
            THEN [maxH |-> BandwidthMatch(text[n]), bestUrl |-> currentUrl]
            ELSE prev

BestUrl(text) == BestScan(text, Len(text)).bestUrl

\* HLSParser.getSegments: the non-blank lines that do not start with '#'
\* (every directive of the model starts with '#', Blank is the empty line).
IsSegmentLine(l) == l.k = "uri"
\* getSegments that returns the lines last to first: sensitivity check for C21.
RECURSIVE getSegments_Reversed(_)
getSegments_Reversed(text) ==
    IF text = <<>> THEN <<>>
    ELSE getSegments_Reversed(Tail(text))
         \o (IF IsSegmentLine(Head(text)) THEN <<Head(text).v>> ELSE <<>>)

RECURSIVE getSegments(_)
getSegments(text) ==
    IF text = <<>> THEN <<>>
    ELSE (IF IsSegmentLine(Head(text)) THEN <<Head(text).v>> ELSE <<>>)
         \o getSegments(Tail(text))

\* ------------------------------------------------------------ payloads
\* The body of a segment response: its length, and whether its first 50
\* bytes, lower-cased, hold '<!doc' or '<html'.
Payloads(uri) ==
    {[uri |-> uri, byteLength |-> b[1], html |-> b[2]] :
        b \in {<<0, FALSE>>, <<999, TRUE>>, <<HtmlGuardLimit, TRUE>>}}

\* background.js:331  buf.slice(0, 50)
SniffLen == 50

\* background.js:332  the length of '<!doc' and of '<html'
MarkerLen == 5

\* String.prototype.toLowerCase on the texts a body of the model may start with.
toLowerCase(t) ==
    CASE t = "<!DOC" -> "<!doc"
      [] t \in {"<HTML", "<Html"} -> "<html"
      [] OTHER -> t

\* A response body in more detail: its length and a piece of text `tag` at
\* byte offset `at` ("" for a body that is media data all through).
Tags == {"", "<!doc", "<!DOC", "<html", "<Html", "<body"}
Bodies ==
    {b \in [byteLength : {0, MarkerLen, HtmlGuardLimit - 1, HtmlGuardLimit},
            tag : Tags, at : {0, SniffLen - MarkerLen, SniffLen - MarkerLen + 1}] :
        IF b.tag = "" THEN b.at = 0 ELSE b.at + MarkerLen <= b.byteLength}

\* Line 331-332: start = the first 50 bytes as a lower-cased string;
\* start.includes('<!doc') || start.includes('<html').
StartIncludesMarker(b) ==
    LET end == IF b.byteLength < SniffLen THEN b.byteLength ELSE SniffLen
    IN /\ toLowerCase(b.tag) \in {"<!doc", "<html"}
       /\ b.at + MarkerLen <= end

\* The payload of the model for such a body.
Received(uri, b) ==
    [uri |-> uri, byteLength |-> b.byteLength, html |-> StartIncludesMarker(b)]

\* A hole of the chunks array (new Array(n) leaves every slot empty).
NoChunk == [uri |-> 0, byteLength |-> 0, html |-> FALSE]

\* Rejected with the guard applied to bodies of any length: sensitivity check
\* for C18.
Rejected_AnyLength(buf) == buf.byteLength = 0 \/ buf.html

\* downloadSegment's payload checks: "Empty segment" and the HTML guard.
Rejected(buf) ==
    \/ buf.byteLength = 0
    \/ (buf.byteLength < HtmlGuardLimit /\ buf.html)

\* StoredChunks that puts the last chunk first: sensitivity check for C12.
RECURSIVE StoredChunks_Reversed(_)
StoredChunks_Reversed(chunks) ==
    IF chunks = <<>> THEN <<>>
    ELSE StoredChunks_Reversed(Tail(chunks))
         \o (IF Head(chunks) # NoChunk THEN <<Head(chunks)>> ELSE <<>>)

\* chunks.filter(c => c): the stored chunks, in index order.
StoredChunks(chunks) == SelectSeq(chunks, LAMBDA c : c # NoChunk)

\* ------------------------------------------------------------ sessions
\* The locals of one run and, in the fields after cancelAt, what it emitted.
NewSession ==
    [pc            |-> "idle",
     id            |-> "",       \* const id = video.url
     text          |-> <<>>,     \* the manifest text in hand
     bestUrl       |-> Blank,    \* the variant whose manifest is being fetched
     segments      |-> <<>>,
     i             |-> 0,        \* the loop index, 0-based as in the source
     chunks        |-> <<>>,     \* chunks[i + 1] models chunks[i]
     downloaded    |-> 0,
     base64Chunks  |-> <<>>,     \* the chunks sent to the offscreen document
     transmuxRes   |-> "",       \* how the 'transmux' request settled: "success", or "failed" (an error status or a rejection)
     fbRes         |-> "",       \* how the 'createFallbackUrl' request settled
     loopExit      |-> "none",   \* how the segment loop ended
     err           |-> "",       \* err.message in the catch of downloadHLS
     attempt1      |-> "",       \* the first fetch of the segment last fetched: "ok", or "failed" (it threw or was not ok)
     result        |-> "",
     cancelAt      |-> -1,       \* when a cancel was first accepted: 0 before the loop, j while segment j (1-based) was in flight
     fetchStarted  |-> FALSE,    \* a segment fetch() was started
     transmuxCalls |-> 0,        \* 'transmux' requests sent
     fallbackCalls |-> 0,        \* 'createFallbackUrl' requests sent
     pageTitle     |-> <<"clip">>, \* msg.pageTitle and msg.filename, both the name shown in the popup (popup.js:154, 265-271)
     downloads     |-> <<>>,     \* triggerDownload calls, by locator
     notifications |-> 0,        \* chrome.notifications.create with title 'Error'
     errorEvents   |-> 0]        \* notifyProgress(id, 0, 'Error', 'Error')

\* The stages of downloadHLS: resolving the manifest, a segment fetch in
\* flight, and after the loop.
BeforeLoop == {"manifest", "variant"}
InFlight == {"att1", "att2", "body"}
PastLoop == {"setup", "transmux", "idburl", "fallback", "done"}

\* catch (err) of downloadHLS: badge, notification, error progress event.
Catch(r, msg) ==
    [r EXCEPT !.pc = "done", !.result = "Failed", !.err = msg, !.attempt1 = "",
              !.bestUrl = Blank,
              !.notifications = @ + 1, !.errorEvents = @ + 1]

\* AfterLoop without the test of line 363: sensitivity check for C6.
AfterLoop_NoZeroTest(r) == [r EXCEPT !.pc = "setup"]

\* Lines 361-369: after the loop, up to the await in setupOffscreen.
AfterLoop(r) ==
    IF r.downloaded = 0 THEN Catch(r, "Download failed")
    ELSE [r EXCEPT !.pc = "setup"]

\* The for loop from its test at index r.i, through downloadSegment's first
\* lines, up to the first fetch; reg is activeDownloads.
RECURSIVE LoopTop(_, _)
\* A failed segment that ends the session: sensitivity check for C7.
SegmentFailed_Fatal(r, reg) == Catch(r, "Fetch failed")

\* catch (e) of the loop body: the segment is skipped, the loop goes on.
SegmentFailed(r, reg) == LoopTop([r EXCEPT !.i = @ + 1], reg)

\* downloadSegment up to its first await.
DownloadSegment(r, reg) ==
    IF reg[r.id] # "live"
    THEN SegmentFailed(r, reg)      \* TypeError or "Cancelled", caught by the loop
    ELSE [r EXCEPT !.pc = "att1", !.fetchStarted = TRUE, !.attempt1 = ""]

LoopTop(r, reg) ==
    IF r.i >= Len(r.segments) THEN AfterLoop([r EXCEPT !.loopExit = "exhausted"])
    ELSE IF reg[r.id] = "absent" THEN Catch(r, "TypeError")
    ELSE IF reg[r.id] = "cancelled" THEN AfterLoop([r EXCEPT !.loopExit = "cancelled"])
    ELSE DownloadSegment(r, reg)

\* How a fetch() of a segment may settle: a response that is ok, a response
\* that is not, or a rejection.
FetchOutcomes == {"ok", "notok", "throw"}

\* SegmentStored that drops the payload: sensitivity check for C17.
SegmentStored_Dropped(r, buf, reg) == LoopTop([r EXCEPT !.i = @ + 1], reg)

\* Lines 335-336 and 344-354: the chunk is stored and counted.
SegmentStored(r, buf, reg) ==
    LoopTop([r EXCEPT !.chunks[r.i + 1] = buf, !.downloaded = @ + 1, !.i = @ + 1], reg)

\* AfterAttempt1 that retries whatever the first fetch returned: sensitivity
\* check for C16.
AfterAttempt1_AlwaysRetry(r, o) ==
    [r EXCEPT !.pc = "att2", !.attempt1 = IF o = "ok" THEN "ok" ELSE "failed"]

\* Lines 317-323: the first fetch settled with o.  A response that is not ok
\* throws into the catch, as a rejected fetch does, and the catch starts the
\* retry; an ok response goes on to line 324 and to res.arrayBuffer().
AfterAttempt1(r, o) ==
    IF o = "ok" THEN [r EXCEPT !.pc = "body", !.attempt1 = "ok"]
    ELSE [r EXCEPT !.pc = "att2", !.attempt1 = "failed"]

\* Lines 322-326: the retry settled with o.  A rejected fetch and a response
\* that is not ok ("Fetch failed") both leave downloadSegment by a throw.
AfterAttempt2(r, o, reg) ==
    IF o = "ok" THEN [r EXCEPT !.pc = "body"]
    ELSE SegmentFailed(r, reg)

\* Lines 326-336: the payload arrived; the checks, then the store.
AfterBody(r, buf, reg) ==
    IF Rejected(buf) THEN SegmentFailed(r, reg)
    ELSE SegmentStored(r, buf, reg)

\* Resolve without the DRM check of line 290: sensitivity check for C5.
Resolve_NoDrmCheck(r, text, reg) ==
    LET segments == getSegments(text)
    IN IF Len(segments) = 0 THEN Catch([r EXCEPT !.text = text], "No segments found")
       ELSE LoopTop([r EXCEPT !.text = text, !.segments = segments,
                              !.chunks = [j \in 1..Len(segments) |-> NoChunk],
                              !.i = 0], reg)

\* Lines 289-306: DRM check, parse, and into the loop.
Resolve(r, text, reg) ==
    IF HasKey(text) THEN Catch([r EXCEPT !.text = text], "DRM Protected")
    ELSE LET segments == getSegments(text)
         IN IF Len(segments) = 0 THEN Catch([r EXCEPT !.text = text], "No segments found")
            ELSE LoopTop([r EXCEPT !.text = text, !.segments = segments,
                                   !.chunks = [j \in 1..Len(segments) |-> NoChunk],
                                   !.i = 0], reg)

\* Lines 255-287: a master manifest with a usable variant is fetched again.
AfterManifest(r, text, reg) ==
    IF IsMaster(text) /\ BestUrl(text) # Blank
    THEN [r EXCEPT !.pc = "variant", !.text = text, !.bestUrl = BestUrl(text)]
    ELSE Resolve(r, text, reg)

\* finally { activeDownloads.delete(id) } once the run has left downloadHLS.
Finally(reg, r) == IF r.pc = "done" THEN [reg EXCEPT ![r.id] = "absent"] ELSE reg

\* triggerDownload(url, filename, true)
TriggerDownload(r, url) == [r EXCEPT !.downloads = Append(@, url)]

\* A transmux failure that fails the session: sensitivity check for C8.
Fallback_Fatal(r) == Catch(r, "Transmux failed")

\* catch (e) at line 420: the fallback request is sent.
Fallback(r) == [r EXCEPT !.pc = "fallback", !.fallbackCalls = @ + 1]

\* ------------------------------------------------- offscreen document
\* The bytes of an ArrayBuffer are a sequence of numbers 0..255; a base64
\* text is the sequence of its symbols, 0..63 for the alphabet and 64 for '='.

\* btoa on one group of one to three bytes.
btoaGroup(b) ==
    LET n  == Len(b)
        b1 == b[1]
        b2 == IF n >= 2 THEN b[2] ELSE 0
        b3 == IF n >= 3 THEN b[3] ELSE 0
    IN <<b1 \div 4,
         (b1 % 4) * 16 + (b2 \div 16),
         IF n >= 2 THEN (b2 % 16) * 4 + (b3 \div 64) ELSE 64,
         IF n >= 3 THEN b3 % 64 ELSE 64>>

\* background.js:381-388: the bytes as a binary string (one character per
\* byte, its code the byte), then btoa.
RECURSIVE btoa(_)
btoa(bin) ==
    IF bin = <<>> THEN <<>>
    ELSE LET n == IF Len(bin) < 3 THEN Len(bin) ELSE 3
         IN btoaGroup(SubSeq(bin, 1, n)) \o btoa(SubSeq(bin, n + 1, Len(bin)))

\* atob that takes the padding symbol for data: sensitivity check for C27.
atobGroup_PadAsData(g) ==
    LET sym(x) == IF x = 64 THEN 0 ELSE x
    IN <<g[1] * 4 + (g[2] \div 16),
         (g[2] % 16) * 16 + (sym(g[3]) \div 4),
         (sym(g[3]) % 4) * 64 + sym(g[4])>>

\* atob on one group of four symbols.
atobGroup(g) ==
    <<g[1] * 4 + (g[2] \div 16)>>
    \o (IF g[3] = 64 THEN <<>> ELSE <<(g[2] % 16) * 16 + (g[3] \div 4)>>)
    \o (IF g[4] = 64 THEN <<>> ELSE <<(g[3] % 4) * 64 + g[4]>>)

\* mediaDetector.js:218-222: atob, then the character codes as bytes.
RECURSIVE atob(_)
atob(b64) ==
    IF b64 = <<>> THEN <<>>
    ELSE atobGroup(SubSeq(b64, 1, 4)) \o atob(SubSeq(b64, 5, Len(b64)))

\* A chunk with its bytes, as downloadSegment stored it for segment uri: an
\* MPEG-TS sync byte (0x47), the number of the segment, and more or less data
\* (two, three and four bytes: every length modulo 3).
ChunksOf(uri) ==
    {[uri |-> uri, byteLength |-> Len(b), html |-> FALSE, bytes |-> b] :
        b \in {<<71, uri>>, <<71, uri, 255>>, <<71, uri, 255, 0>>}}

\* The chunks arrays downloadHLS may hold after its loop: one slot per segment,
\* a hole where the segment failed, at least one chunk (line 363).
ChunkArrays ==
    UNION {{a \in [1..n -> UNION {ChunksOf(j) : j \in 1..n} \cup {NoChunk}] :
               /\ \A j \in 1..n : a[j] = NoChunk \/ a[j] \in ChunksOf(j)
               /\ \E j \in 1..n : a[j] # NoChunk} : n \in 1..MaxSeg}

\* parser.getTotalDuration() for the playlists of the model: none of its
\* #EXTINF lines parsed, or 4 seconds a segment.
Durations == {0, 4 * MaxSeg}

\* background.js:377-389: chunks.filter(c => c).map(c => btoa(...)).
Base64Chunks(chunks) ==
    LET stored == StoredChunks(chunks)
    IN [k \in 1..Len(stored) |-> btoa(stored[k].bytes)]

\* background.js:404-409 and 423-427: the two requests of downloadHLS.
TransmuxMessage(chunks, duration) ==
    [action |-> "transmux", base64Chunks |-> Base64Chunks(chunks), duration |-> duration]
FallbackMessage(chunks) ==
    [action |-> "createFallbackUrl", base64Chunks |-> Base64Chunks(chunks), duration |-> 0]

\* mediaDetector.js:215-226: message.base64Chunks.map(b64 => ...bytes.buffer).
decodeChunks(message) ==
    [k \in 1..Len(message.base64Chunks) |-> atob(message.base64Chunks[k])]

\* The offscreen document with no request in hand; also a parser, a patch or
\* a store that is not in use.
NoRequest == [pc |-> "idle"]

\* The offscreen document as the listener is entered with message; array is
\* the chunks array of downloadHLS the message was built from.
OnMessage(array, message) ==
    [pc          |-> "received",
     array       |-> array,
     message     |-> message,
     chunks      |-> <<>>,     \* let chunks = decodeChunks(message)
     initSegment |-> 0,        \* 0 is null; an initialization segment is named by the event that carried it
     segments    |-> <<>>,     \* the media fragments collected, named likewise
     calls       |-> <<>>,     \* the calls made on the transmuxer, in order
     thrown      |-> {},       \* the calls that threw, by their place in calls
     events      |-> <<>>,     \* the 'data' events the transmuxer emitted, in order
     finalData   |-> <<>>,     \* the parts of the Blob
     response    |-> "none"]   \* the status handed to sendResponse

\* ------------------------------------------------- file names and the sink
\* A file name is a sequence of pieces: words ("clip", "http"), a run of
\* white space (" "), the underscore that replaces it, and the extensions
\* ".mp4" and ".ts", each with its dot.

\* The number of characters of a name, the dot of an extension left out.
RECURSIVE CharsOf(_)
CharsOf(name) ==
    IF name = <<>> THEN 0
    ELSE CharsOf(Tail(name)) + (CASE Head(name) = ".mp4" -> 3
                                  [] Head(name) = ".ts" -> 2
                                  [] Head(name) \in {" ", "_"} -> 1
                                  [] OTHER -> 4)

\* String.prototype.trim on a name: white space at its two ends is dropped.
RECURSIVE trim(_)
trim(name) ==
    IF name = <<>> THEN name
    ELSE IF Head(name) = " " THEN trim(Tail(name))
    ELSE IF name[Len(name)] = " " THEN trim(SubSeq(name, 1, Len(name) - 1))
    ELSE name

\* Lines 171-175: 'mp4', or what follows the last dot of filename when the
\* name has a dot and that text has at most 4 characters.
Ext(filename) ==
    LET dots == {j \in 1..Len(filename) : filename[j] \in {".mp4", ".ts"}}
        last == CHOOSE j \in dots : \A h \in dots : h <= j
        ext == SubSeq(filename, last, Len(filename))
    IN IF dots = {} \/ CharsOf(ext) > 4 THEN <<".mp4">> ELSE ext

\* Lines 168-184 of handleDownload: video.filename for a request whose
\* pageTitle and filename are both the name shown in the popup.  safe is
\* the title after .replace(/\s+/g, '_') and .trim() (line 178); the
\* characters the other replaces look for are in no piece.
Filename(pageTitle) ==
    LET safe == trim([j \in 1..Len(pageTitle) |->
                        IF pageTitle[j] = " " THEN "_" ELSE pageTitle[j]])
    IN IF trim(pageTitle) # <<>> THEN safe \o Ext(pageTitle) ELSE pageTitle

endsWith(name, piece) == name # <<>> /\ name[Len(name)] = piece

\* Lines 392-398: targetName; finalExt is '.mp4' (line 375).
targetName(filename, pageTitle) ==
    IF filename = <<>> \/ endsWith(filename, ".ts") \/ (filename # <<>> /\ filename[1] = "http")
    THEN trim(IF pageTitle = <<>> THEN <<"video">> ELSE pageTitle) \o <<".mp4">>
    ELSE IF ~endsWith(filename, ".mp4") THEN filename \o <<".mp4">>
    ELSE filename

\* Line 430: targetName.replace('.mp4', '.ts'); a string pattern is replaced
\* where it first occurs.
replace(name) ==
    LET at == {j \in 1..Len(name) : name[j] = ".mp4"}
    IN IF at = {} THEN name
       ELSE [name EXCEPT ![CHOOSE j \in at : \A h \in at : j <= h] = ".ts"]

\* The name downloadHLS hands to triggerDownload for the locator of kind.
NameFor(r, kind) ==
    LET name == targetName(Filename(r.pageTitle), r.pageTitle)
    IN IF kind = "ts" THEN replace(name) ELSE name

\* urlRes.url of an error response.
Undefined == [s |-> "", kind |-> "undefined"]

\* The blob URLs the offscreen document makes for a run, and undefined.
Locators == {[s |-> s, kind |-> k] : s \in Sessions, k \in {"mp4", "ts"}} \cup {Undefined}

\* The sink holds a map from the urls given to triggerDownload to what is
\* known of each; no url has been given yet.
NoDownloads == [pc |-> "open", urls |-> <<>>]

\* What the sink holds for url l: its name in filenameOverrides (line 445;
\* <<>> for no entry), its download in chrome.downloads ("none", "requested",
\* "started", "refused"), whether onDeterminingFilename was called and
\* what it suggested, the blob behind it ("none", "live", "revoked"), and
\* whether the timers of lines 454 and 478 are set.
Entry(k, l) ==
    IF l \in DOMAIN k.urls THEN k.urls[l]
    ELSE [filename |-> <<>>, download |-> "none", asked |-> FALSE, suggested |-> <<>>,
          blob |-> "none", overrideTimer |-> FALSE, revokeTimer |-> FALSE]

\* triggerDownload that asks for the download and registers no name.
triggerDownload_NoOverride(k, url, filename, threw) ==
    IF threw THEN k
    ELSE [k EXCEPT !.urls = (url :> [Entry(k, url) EXCEPT !.download = "requested"]) @@ @]

\* Lines 462-466: triggerDownload up to the return of chrome.downloads.download,
\* which throws or takes the request.
triggerDownload(k, url, filename, threw) ==
    LET k2 == [k EXCEPT !.urls = (url :> [Entry(k, url) EXCEPT !.filename = filename]) @@ @]
    IN IF threw THEN k2 ELSE [k2 EXCEPT !.urls[url].download = "requested"]

\* The sink after a continuation that took run s from r to r2: when r2 has
\* one more triggerDownload call, the offscreen document has made the URL
\* (unless the response had none) and the call is made with it.  A
\* specification that starts without the sink (NoRequest) follows the calls
\* in the downloads of the run alone.
Materialize(k, s, r, r2) ==
    IF k.pc = "idle" \/ Len(r2.downloads) = Len(r.downloads) THEN k
    ELSE LET kind == r2.downloads[Len(r2.downloads)]
             url == IF kind = "undefined" THEN Undefined ELSE [s |-> s, kind |-> kind]
             k2 == IF kind = "undefined" THEN k
                   ELSE [k EXCEPT !.urls = (url :> [Entry(k, url) EXCEPT !.blob = "live"]) @@ @]
         IN triggerDownload(k2, url, NameFor(r2, kind), kind = "undefined" /\ r2.pc = "fallback")

\* ------------------------------------------------------------- actions
Init ==
    /\ activeDownloads = [u \in Urls |-> "absent"]
    /\ sess = [s \in Sessions |-> NewSession]
    /\ mux = NoRequest
    /\ parser = NoRequest /\ patch = NoRequest /\ idb = NoRequest
    /\ sink = NoRequest /\ loop = NoRequest /\ detect = NoRequest

\* onMessage DOWNLOAD_MEDIA -> handleDownload, up to await sendToNative.
StartDownload(s) ==
    /\ sess[s].pc = "idle"
    /\ \E u \in Requested(s) : sess' = [sess EXCEPT ![s] = [@ EXCEPT !.pc = "native", !.id = u]]
    /\ UNCHANGED <<activeDownloads, mux, parser, patch, idb, sink, loop, detect>>

\* sendToNative settles; when it fails for another reason than a missing host,
\* downloadHLS runs up to its first await (the manifest fetch).  The videos
\* of the model are all of type HLS.
NativeResponse(s) ==
    /\ sess[s].pc = "native"
    /\ \E o \in {"ok", "missing", "error"} :
        IF o = "error"
        THEN /\ sess' = [sess EXCEPT ![s] = [@ EXCEPT !.pc = "manifest"]]
             /\ activeDownloads' = [activeDownloads EXCEPT ![sess[s].id] = "live"]
        ELSE /\ sess' = [sess EXCEPT ![s] = [@ EXCEPT !.pc = "done",
                             !.result = IF o = "ok" THEN "Native" ELSE "NativeMissing"]]
             /\ UNCHANGED activeDownloads
    /\ UNCHANGED <<mux, parser, patch, idb, sink, loop, detect>>

\* onMessage CANCEL_DOWNLOAD; with no entry for the url it answers 'not_found'
\* and changes nothing.
CancelDownload(u) ==
    /\ activeDownloads[u] # "absent"
    /\ activeDownloads' = [activeDownloads EXCEPT ![u] = "cancelled"]
    /\ sess' = [s \in Sessions |->
                 IF sess[s].id = u /\ sess[s].pc \in BeforeLoop \cup InFlight /\ sess[s].cancelAt = -1
                 THEN [sess[s] EXCEPT !.cancelAt = IF sess[s].pc \in InFlight THEN sess[s].i + 1 ELSE 0]
                 ELSE sess[s]]
    /\ UNCHANGED <<mux, parser, patch, idb, sink, loop, detect>>

\* One continuation of downloadHLS: the run moves to r2 and, when that ends it,
\* its finally block runs.
Continue(s, r2) ==
    /\ sess' = [sess EXCEPT ![s] = r2]
    /\ activeDownloads' = Finally(activeDownloads, r2)
    /\ UNCHANGED <<mux, parser, patch, idb, sink, loop, detect>>

\* A continuation of downloadHLS that calls triggerDownload.
ContinueDownload(s, r2) ==
    /\ sess' = [sess EXCEPT ![s] = r2]
    /\ activeDownloads' = Finally(activeDownloads, r2)
    /\ sink' = Materialize(sink, s, sess[s], sess'[s])
    /\ UNCHANGED <<mux, parser, patch, idb, loop, detect>>

\* await fetch(video.url) / response.text()
ManifestResponse(s) ==
    /\ sess[s].pc = "manifest"
    /\ \/ Continue(s, Catch(sess[s], "Failed to fetch"))
       \/ \E text \in FirstManifests : Continue(s, AfterManifest(sess[s], text, activeDownloads))

\* text = await fetch(bestUrl).then(r => r.text())
VariantResponse(s) ==
    /\ sess[s].pc = "variant"
    /\ \/ Continue(s, Catch(sess[s], "Failed to fetch"))
       \/ \E text \in Manifests :
            Continue(s, Resolve([sess[s] EXCEPT !.bestUrl = Blank], text, activeDownloads))

\* The first fetch of downloadSegment settles.
Att1Response(s) ==
    /\ sess[s].pc = "att1"
    /\ \E o \in FetchOutcomes : Continue(s, AfterAttempt1(sess[s], o))

\* The retry (credentials: 'omit', no referrer) settles.
Att2Response(s) ==
    /\ sess[s].pc = "att2"
    /\ \E o \in FetchOutcomes : Continue(s, AfterAttempt2(sess[s], o, activeDownloads))

\* await res.arrayBuffer(), the payload checks, and on to the next segment.
BodyResponse(s) ==
    /\ sess[s].pc = "body"
    /\ \E buf \in Payloads(sess[s].segments[sess[s].i + 1]) :
         Continue(s, AfterBody(sess[s], buf, activeDownloads))

\* await setupOffscreen(); the chunks are encoded and the transmux request sent.
SetupDone(s) ==
    /\ sess[s].pc = "setup"
    /\ Continue(s, [sess[s] EXCEPT !.pc = "transmux", !.transmuxCalls = @ + 1, !.attempt1 = "",
                                   !.base64Chunks = StoredChunks(sess[s].chunks)])

\* The 'transmux' request settles.
TransmuxResponse(s) ==
    /\ sess[s].pc = "transmux"
    /\ \E o \in {"success", "error", "rejected"} :
         Continue(s, IF o = "success"
                     THEN [sess[s] EXCEPT !.pc = "idburl", !.transmuxRes = "success"]
                     ELSE Fallback([sess[s] EXCEPT !.transmuxRes = "failed"]))

\* The 'createUrlFromIDB' request settles.  On an error status urlRes.url is
\* undefined and triggerDownload is called with it; chrome.downloads.download
\* then either throws into the catch of line 420 or reports through its callback.
IdbUrlResponse(s) ==
    /\ sess[s].pc = "idburl"
    /\ \E o \in {"success", "error-throws", "error-reported", "rejected"} :
         ContinueDownload(s, CASE o = "success" ->
                            [TriggerDownload(sess[s], "mp4") EXCEPT !.pc = "done", !.result = "Completed"]
                       [] o = "error-throws" -> Fallback(TriggerDownload(sess[s], "undefined"))
                       [] o = "error-reported" ->
                            [TriggerDownload(sess[s], "undefined") EXCEPT !.pc = "done", !.result = "NoArtifact"]
                       [] o = "rejected" -> Fallback(sess[s]))

\* The 'createFallbackUrl' request settles.
FallbackResponse(s) ==
    /\ sess[s].pc = "fallback"
    /\ \E o \in {"success", "error", "rejected"} :
         LET r == [sess[s] EXCEPT !.fbRes = o]
         IN ContinueDownload(s, CASE o = "success" ->
                                       [TriggerDownload(r, "ts") EXCEPT !.pc = "done", !.result = "Completed"]
                          [] o = "error" -> [r EXCEPT !.pc = "done", !.result = "NoArtifact"]
                          [] o = "rejected" -> Catch(r, "rejected"))

Next ==
    \/ \E s \in Sessions : StartDownload(s)
    \/ \E s \in Sessions : NativeResponse(s)
    \/ \E u \in Urls : CancelDownload(u)
    \/ \E s \in Sessions : ManifestResponse(s)
    \/ \E s \in Sessions : VariantResponse(s)
    \/ \E s \in Sessions : Att1Response(s)
    \/ \E s \in Sessions : Att2Response(s)
    \/ \E s \in Sessions : BodyResponse(s)
    \/ \E s \in Sessions : SetupDone(s)
    \/ \E s \in Sessions : TransmuxResponse(s)
    \/ \E s \in Sessions : IdbUrlResponse(s)
    \/ \E s \in Sessions : FallbackResponse(s)

Spec == Init /\ [][Next]_vars

\* One run on its own: the download of the other video was taken by the
\* companion app (handleDownload returned at line 204).
InitSingle ==
    /\ activeDownloads = [u \in Urls |-> "absent"]
    /\ sess = [s \in Sessions |->
                 IF s = "s1" THEN NewSession
                 ELSE [NewSession EXCEPT !.pc = "done", !.id = "u2", !.result = "Native"]]
    /\ mux = NoRequest
    /\ parser = NoRequest /\ patch = NoRequest /\ idb = NoRequest
    /\ sink = NoRequest /\ loop = NoRequest /\ detect = NoRequest

SpecSingle == InitSingle /\ [][Next]_vars

\* The names the popup sends.  They are not empty and not 'video', so the
\* lookup of lines 158-166 is skipped.
Titles == {<<"clip">>, <<"clip", ".mp4">>, <<"clip", ".ts">>, <<"clip", " ", "clip">>,
           <<"http", "clip">>, <<"clip", ".mp4", " ", "clip">>}

\* One run and the sink: as InitSingle, for any of the names.
SinkInit ==
    /\ activeDownloads = [u \in Urls |-> "absent"]
    /\ \E title \in Titles :
         sess = [s \in Sessions |->
                   IF s = "s1" THEN [NewSession EXCEPT !.pageTitle = title]
                   ELSE [NewSession EXCEPT !.pc = "done", !.id = "u2", !.result = "Native"]]
    /\ mux = NoRequest
    /\ parser = NoRequest /\ patch = NoRequest /\ idb = NoRequest
    /\ sink = NoDownloads /\ loop = NoRequest /\ detect = NoRequest

\* Lines 466-484: the callback of chrome.downloads.download.  With lastError
\* the override is deleted; otherwise the revoke timer is set (isBlob is
\* true and dId is a positive number).  A request without a url is refused.
DownloadCallback(l) ==
    /\ Entry(sink, l).download = "requested"
    /\ \E lastError \in IF l = Undefined THEN {TRUE} ELSE BOOLEAN :
         sink' = IF lastError
                 THEN [sink EXCEPT !.urls[l].download = "refused", !.urls[l].filename = <<>>]
                 ELSE [sink EXCEPT !.urls[l].download = "started", !.urls[l].revokeTimer = TRUE]
    /\ UNCHANGED <<activeDownloads, sess, mux, parser, patch, idb, loop, detect>>

\* Lines 448-456: onDeterminingFilename, which the browser calls once for
\* a download it has taken.
DeterminingFilename(l) ==
    /\ l # Undefined
    /\ Entry(sink, l).download \in {"requested", "started"}
    /\ ~sink.urls[l].asked
    /\ sink' = IF sink.urls[l].filename # <<>>
               THEN [sink EXCEPT !.urls[l].asked = TRUE, !.urls[l].suggested = sink.urls[l].filename,
                                 !.urls[l].overrideTimer = TRUE]
               ELSE [sink EXCEPT !.urls[l].asked = TRUE]
    /\ UNCHANGED <<activeDownloads, sess, mux, parser, patch, idb, loop, detect>>

\* Line 454, 60 seconds later: filenameOverrides.delete(item.url).
OverrideTimer(l) ==
    /\ Entry(sink, l).overrideTimer
    /\ sink' = [sink EXCEPT !.urls[l].overrideTimer = FALSE, !.urls[l].filename = <<>>]
    /\ UNCHANGED <<activeDownloads, sess, mux, parser, patch, idb, loop, detect>>

\* Lines 478-481, 15 minutes later: URL.revokeObjectURL(url) in the service
\* worker returns or throws; when it returns, 'revokeBlobUrl' is sent and
\* the offscreen document revokes the URL (mediaDetector.js:80-87).
RevokeTimer(l) ==
    /\ Entry(sink, l).revokeTimer
    /\ \E threw \in BOOLEAN :
         sink' = IF threw THEN [sink EXCEPT !.urls[l].revokeTimer = FALSE]
                 ELSE [sink EXCEPT !.urls[l].revokeTimer = FALSE, !.urls[l].blob = "revoked"]
    /\ UNCHANGED <<activeDownloads, sess, mux, parser, patch, idb, loop, detect>>

SinkNext ==
    \/ Next
    \/ \E l \in Locators : DownloadCallback(l)
    \/ \E l \in Locators : DeterminingFilename(l)
    \/ \E l \in Locators : OverrideTimer(l)
    \/ \E l \in Locators : RevokeTimer(l)

SinkSpec == SinkInit /\ [][SinkNext]_vars

\* Every callback and timer that is due runs, and every response arrives.
SinkLiveSpec == SinkSpec /\ WF_vars(SinkNext)

\* How one call on the transmuxer behaves: it throws, or it returns after
\* emitting no event or one 'data' event that carries an initialization
\* segment, media data, or both.
EventKinds == {"none", "init", "data", "both"}
CallOutcomes == EventKinds \cup {"throw"}

\* The 'data' event number e of a feed, of kind kind.
DataEvent(e, kind) ==
    [initSegment |-> IF kind \in {"init", "both"} THEN e ELSE 0,
     data        |-> IF kind \in {"data", "both"} THEN e ELSE 0]

\* The listener with the capture of the last header: sensitivity check for C13.
OnData_LastWins(f, segment) ==
    [f EXCEPT !.initSegment = IF segment.initSegment # 0 THEN segment.initSegment ELSE @,
              !.segments = IF segment.data # 0 THEN Append(@, segment.data) ELSE @,
              !.events = Append(@, segment)]

\* mediaDetector.js:142-156: transmuxer.on('data', ...).
OnData(f, segment) ==
    [f EXCEPT !.initSegment = IF segment.initSegment # 0 /\ @ = 0
                              THEN segment.initSegment ELSE @,
              !.segments = IF segment.data # 0 THEN Append(@, segment.data) ELSE @,
              !.events = Append(@, segment)]

\* A call that returns: the event it emitted, if any, reaches the listener.
Emit(f, kind) ==
    IF kind = "none" THEN f ELSE OnData(f, DataEvent(Len(f.events) + 1, kind))

\* catch (e) at line 201: the error response.
TransmuxError(f) == [f EXCEPT !.pc = "done", !.response = "error"]

RECURSIVE PushAll(_, _, _)
\* The catch of line 163 left out, so that a push that throws ends the feed:
\* sensitivity check for C15.
PushThrew_Abort(f, k, lib) == TransmuxError(f)

\* catch (err) at line 163: a warning, and the loop goes on.
PushThrew(f, k, lib) == PushAll([f EXCEPT !.thrown = @ \cup {Len(f.calls)}], k + 1, lib)

\* Lines 159-167: for (const chunk of chunks), from chunk k on; lib[n] is how
\* the n-th call on the transmuxer behaves.
PushAll(f, k, lib) ==
    IF k > Len(f.chunks) THEN f
    ELSE IF Len(f.chunks[k]) = 0 THEN PushAll(f, k + 1, lib)
    ELSE LET called == [f EXCEPT !.calls = Append(@, [op |-> "push", arg |-> f.chunks[k]])]
             n == Len(called.calls)
         IN IF lib[n] = "throw" THEN PushThrew(called, k, lib)
            ELSE PushAll(Emit(called, lib[n]), k + 1, lib)

\* Lines 173-189: the header (patched when message.duration is set) and the
\* media fragments make the Blob; an empty Blob is an error.  Every
\* initialization segment and every media fragment has at least one byte.
Assemble(f) ==
    LET header == IF f.initSegment # 0
                  THEN <<[part |-> "init", id |-> f.initSegment, patched |-> f.message.duration # 0]>>
                  ELSE <<>>
        media == [j \in 1..Len(f.segments) |-> [part |-> "data", id |-> f.segments[j], patched |-> FALSE]]
        finalData == header \o media
    IN IF finalData = <<>> THEN TransmuxError(f)
       ELSE [f EXCEPT !.pc = "store", !.finalData = finalData]

\* Lines 169-171: transmuxer.flush(), then the assembly.
Flush(f, lib) ==
    LET called == [f EXCEPT !.calls = Append(@, [op |-> "flush", arg |-> <<>>])]
        n == Len(called.calls)
    IN IF lib[n] = "throw" THEN TransmuxError([called EXCEPT !.thrown = @ \cup {n}])
       ELSE Assemble(Emit(called, lib[n]))

\* The 'transmux' branch of the listener up to await storeBlobInIDB.
Transmux(f, lib) ==
    LET fed == PushAll([f EXCEPT !.chunks = decodeChunks(f.message)], 1, lib)
    IN IF fed.pc = "done" THEN fed ELSE Flush(fed, lib)

\* mediaDetector.js:114-125: the 'createFallbackUrl' branch; o is whether
\* new Blob and URL.createObjectURL returned or threw.
CreateFallbackUrl(f, o) ==
    LET chunks == decodeChunks(f.message)
    IN IF o = "throw" THEN [f EXCEPT !.pc = "done", !.chunks = chunks, !.response = "error"]
       ELSE [f EXCEPT !.pc = "done", !.chunks = chunks, !.response = "success",
                      !.finalData = [j \in 1..Len(chunks) |->
                                       [part |-> "chunk", id |-> chunks[j], patched |-> FALSE]]]

\* The requests of downloadHLS reach the offscreen document.
MuxInit ==
    /\ activeDownloads = [u \in Urls |-> "absent"]
    /\ sess = [s \in Sessions |-> NewSession]
    /\ \E array \in ChunkArrays :
         \/ \E d \in Durations : mux = OnMessage(array, TransmuxMessage(array, d))
         \/ mux = OnMessage(array, FallbackMessage(array))
    /\ parser = NoRequest /\ patch = NoRequest /\ idb = NoRequest
    /\ sink = NoRequest /\ loop = NoRequest /\ detect = NoRequest

\* The listener runs for a 'transmux' request; the library behaves as lib.
TransmuxRequest ==
    /\ mux.pc = "received" /\ mux.message.action = "transmux"
    /\ \E lib \in [1..(Len(mux.message.base64Chunks) + 1) -> CallOutcomes] :
         mux' = Transmux(mux, lib)
    /\ UNCHANGED <<activeDownloads, sess, parser, patch, idb, sink, loop, detect>>

\* await storeBlobInIDB(key, blob) settles; the response is sent.
StoreSettled ==
    /\ mux.pc = "store"
    /\ \E o \in {"success", "error"} : mux' = [mux EXCEPT !.pc = "done", !.response = o]
    /\ UNCHANGED <<activeDownloads, sess, parser, patch, idb, sink, loop, detect>>

\* The listener runs for a 'createFallbackUrl' request.
FallbackRequest ==
    /\ mux.pc = "received" /\ mux.message.action = "createFallbackUrl"
    /\ \E o \in {"ok", "throw"} : mux' = CreateFallbackUrl(mux, o)
    /\ UNCHANGED <<activeDownloads, sess, parser, patch, idb, sink, loop, detect>>

MuxNext == TransmuxRequest \/ StoreSettled \/ FallbackRequest

MuxSpec == MuxInit /\ [][MuxNext]_vars

\* ------------------------------------------------- HLSParser on its own
\* Longest playlist, in lines, handed to the parser on its own.
MaxLines == 3

\* "#EXTINF:abc,": a duration directive whose value is no number.
ExtInfText == [k |-> "#EXTINF", v |-> 0, text |-> "abc"]

\* The values of the duration directives that are numbers.
DurationValues == {2, 4}

\* The lines of those playlists, and the playlists: every sequence of at most
\* MaxLines lines, and the media playlists of three and of MaxSeg segments.
Lines == {Header, Blank, ExtInfText, Uri(1), Uri(2)} \cup {ExtInf(d) : d \in DurationValues}
Playlists == UNION {[1..n -> Lines] : n \in 0..MaxLines} \cup {Media(3), Media(MaxSeg)}

\* A number of the script: NaN, or the value d.
Number(d) == [nan |-> FALSE, d |-> d]
NaN == [nan |-> TRUE, d |-> 0]

\* parseFloat(line.substring(8).split(',')[0])
parseFloat(line) == IF "text" \in DOMAIN line THEN NaN ELSE Number(line.v)

\* total += d: NaN once either operand is.
Plus(total, d) == IF total.nan \/ d.nan THEN NaN ELSE Number(total.d + d.d)

\* The loop body without the isNaN test: sensitivity check for C22.
AddDuration_NoNaNTest(total, line) ==
    IF line.k = "#EXTINF" THEN Plus(total, parseFloat(line)) ELSE total

\* Lines 502-506: the body of the loop of getTotalDuration for one line.
AddDuration(total, line) ==
    IF line.k = "#EXTINF"
    THEN LET d == parseFloat(line)
         IN IF ~d.nan THEN Plus(total, d) ELSE total
    ELSE total

\* The loop over lines 1..n.
RECURSIVE TotalScan(_, _)
TotalScan(text, n) ==
    IF n = 0 THEN Number(0) ELSE AddDuration(TotalScan(text, n - 1), text[n])

\* HLSParser.getTotalDuration: return total > 0 ? total : 0 (NaN > 0 is false).
getTotalDuration(text) ==
    LET total == TotalScan(text, Len(text))
    IN IF ~total.nan /\ total.d > 0 THEN total.d ELSE 0

\* new HLSParser(video.url, text)
HLSParser(text) ==
    [pc |-> "new", text |-> text, segments |-> <<>>, totalDuration |-> 0]

ParserInit ==
    /\ activeDownloads = [u \in Urls |-> "absent"]
    /\ sess = [s \in Sessions |-> NewSession]
    /\ mux = NoRequest /\ patch = NoRequest /\ idb = NoRequest
    /\ sink = NoRequest /\ loop = NoRequest /\ detect = NoRequest
    /\ \E text \in Playlists : parser = HLSParser(text)

\* Line 299: const segments = parser.getSegments()
GetSegments ==
    /\ parser.pc = "new"
    /\ parser' = [parser EXCEPT !.pc = "segments", !.segments = getSegments(parser.text)]
    /\ UNCHANGED <<activeDownloads, sess, mux, patch, idb, sink, loop, detect>>

\* Line 300: const totalDuration = parser.getTotalDuration()
GetTotalDuration ==
    /\ parser.pc = "segments"
    /\ parser' = [parser EXCEPT !.pc = "done", !.totalDuration = getTotalDuration(parser.text)]
    /\ UNCHANGED <<activeDownloads, sess, mux, patch, idb, sink, loop, detect>>

ParserNext == GetSegments \/ GetTotalDuration

ParserSpec == ParserInit /\ [][ParserNext]_vars

\* ------------------------------------------------- patchDuration
\* A buffer is the sequence of its bytes; data[i] of the script is data[i + 1]
\* here.  A number too large for the checker's integers is held as the bytes
\* of its binary form, most significant first.

\* 0x6D 0x76 0x68 0x64
mvhd == <<109, 118, 104, 100>>

\* Lines 279-285: the first i < data.length - 4 where the tag starts, or -1.
mvhdIndex(data) ==
    LET found == {i \in 0..(Len(data) - 5) : SubSeq(data, i + 1, i + 4) = mvhd}
    IN IF found = {} THEN -1 ELSE CHOOSE i \in found : \A h \in found : i <= h

\* Lines 292-298.
timescaleOffset(version, versionOffset) ==
    IF version = 1 THEN versionOffset + 4 + 8 + 8 ELSE versionOffset + 4 + 4 + 4

\* durationOffset that forgets the width of the timescale: sensitivity check
\* for C26.
durationOffset_AtTimescale(tsOffset) == tsOffset

durationOffset(tsOffset) == tsOffset + 4

\* data[i] as an operand of << and |: a read past the end gives undefined,
\* which these operators take as 0.
ByteAt(data, i) == IF i < Len(data) THEN data[i + 1] ELSE 0

\* Lines 300-301: the four bytes that make up ts, and so timescale = ts >>> 0.
ReadUint32(data, offset) == [k \in 1..4 |-> ByteAt(data, offset + k - 1)]

\* The zero test that never holds: sensitivity check for C25.
IsZero_Never(timescale) == FALSE

\* Line 303: timescale === 0
IsZero(timescale) == timescale = <<0, 0, 0, 0>>

\* word * m + c for a number given by its bytes, in as many bytes.
RECURSIVE TimesPlus(_, _, _)
TimesPlus(word, m, c) ==
    IF word = <<>> THEN <<>>
    ELSE LET t == word[Len(word)] * m + c
         IN TimesPlus(SubSeq(word, 1, Len(word) - 1), m, t \div 256) \o <<t % 256>>

\* floor(word / m), with r carried in from the bytes before.
RECURSIVE DivideBy(_, _, _)
DivideBy(word, m, r) ==
    IF word = <<>> THEN <<>>
    ELSE LET t == r * 256 + word[1]
         IN <<t \div m>> \o DivideBy(Tail(word), m, t % m)

\* The seconds of a duration are a fraction num / den.
\* Line 305: Math.round(durationSec * timescale), the nearest integer and the
\* upper one at a tie: floor((2 * num * timescale + den) / (2 * den)), as 8
\* bytes (the product is exact in the script below 2^53).
newDuration(durationSec, timescale) ==
    DivideBy(TimesPlus(<<0, 0, 0, 0>> \o timescale, 2 * durationSec.num, durationSec.den),
             2 * durationSec.den, 0)

\* Lines 308-317: high = Math.floor(newDuration / 4294967296) and
\* low = newDuration % 4294967296, each as the four bytes (x >> 24) & 0xFF,
\* (x >> 16) & 0xFF, (x >> 8) & 0xFF, x & 0xFF.  Lines 319-322 take the same
\* four bytes of newDuration with >>>, which works modulo 2^32: those of low.
High(n) == SubSeq(n, 1, 4)
Low(n) == SubSeq(n, 5, 8)

\* Writes that lengthen the buffer, as writes to an ordinary array do:
\* sensitivity check for C24.
Store_Grow(data, offset, bytes) ==
    [j \in 1..(IF Len(data) > offset + Len(bytes) THEN Len(data) ELSE offset + Len(bytes)) |->
        IF j - 1 >= offset /\ j - 1 < offset + Len(bytes) THEN bytes[j - offset]
        ELSE IF j <= Len(data) THEN data[j] ELSE 0]

\* data[offset] = bytes[1], data[offset + 1] = bytes[2], ...: a write past the
\* end of a Uint8Array does nothing.
Store(data, offset, bytes) ==
    [j \in 1..Len(data) |->
        IF j - 1 >= offset /\ j - 1 < offset + Len(bytes) THEN bytes[j - offset] ELSE data[j]]

\* patchDuration(initSegment, durationSec); data is a copy of initSegment.
patchDuration(initSegment, durationSec) ==
    LET data == initSegment
        index == mvhdIndex(data)
    IN IF index = -1 THEN initSegment
       ELSE LET versionOffset == index + 4
                version == data[versionOffset + 1]
                tsOffset == timescaleOffset(version, versionOffset)
                timescale == ReadUint32(data, tsOffset)
                n == newDuration(durationSec, timescale)
            IN IF IsZero(timescale) THEN initSegment
               ELSE IF version = 1
                    THEN Store(data, durationOffset(tsOffset), High(n) \o Low(n))
                    ELSE Store(data, durationOffset(tsOffset), Low(n))

\* The timescales of the headers handed to patchDuration: 0, 1, 1000, 90000
\* (the library's) and 2^32 - 1.
Timescales ==
    {<<0, 0, 0, 0>>, <<0, 0, 0, 1>>, <<0, 0, 3, 232>>, <<0, 1, 95, 144>>, <<255, 255, 255, 255>>}

\* A movie header box from its tag on: version, flags, creation and
\* modification times, timescale, duration, and the rate after it.
MvhdBox(version, timescale) ==
    mvhd \o <<version, 0, 0, 0>>
         \o (IF version = 1 THEN [k \in 1..16 |-> 7] ELSE [k \in 1..8 |-> 7])
         \o timescale
         \o (IF version = 1 THEN <<1, 2, 3, 4, 5, 6, 7, 8>> ELSE <<1, 2, 3, 4>>)
         \o <<0, 1, 0, 0>>

\* The buffers handed to patchDuration: what precedes the box (nothing, or
\* bytes that begin like the tag), the box, and every truncation of it,
\* down to buffers that do not hold the tag.
Truncations(box) == {SubSeq(box, 1, n) : n \in 0..Len(box)}
InitSegments ==
    UNION {{prefix \o cut : cut \in Truncations(MvhdBox(b[1], b[2]))} :
              prefix \in {<<>>, <<0, 109, 118>>},
              b \in {0, 1, 2} \X Timescales}

\* message.duration: half a second, 12 seconds, 12 and a half, and 13 hours
\* 15 minutes 22 seconds.
DurationSecs ==
    {[num |-> 1, den |-> 2], [num |-> 12, den |-> 1], [num |-> 25, den |-> 2],
     [num |-> 47722, den |-> 1]}

PatchInit ==
    /\ activeDownloads = [u \in Urls |-> "absent"]
    /\ sess = [s \in Sessions |-> NewSession]
    /\ mux = NoRequest /\ parser = NoRequest /\ idb = NoRequest
    /\ sink = NoRequest /\ loop = NoRequest /\ detect = NoRequest
    /\ \E initSegment \in InitSegments : \E durationSec \in DurationSecs :
         patch = [pc |-> "called", initSegment |-> initSegment, durationSec |-> durationSec,
                  result |-> <<>>, again |-> <<>>]

\* initSegment = patchDuration(initSegment, message.duration)
PatchDuration ==
    /\ patch.pc = "called"
    /\ patch' = [patch EXCEPT !.pc = "returned",
                               !.result = patchDuration(patch.initSegment, patch.durationSec)]
    /\ UNCHANGED <<activeDownloads, sess, mux, parser, idb, sink, loop, detect>>

\* patchDuration applied to what it returned, with the same duration.
PatchAgain ==
    /\ patch.pc = "returned"
    /\ patch' = [patch EXCEPT !.pc = "twice",
                               !.again = patchDuration(patch.result, patch.durationSec)]
    /\ UNCHANGED <<activeDownloads, sess, mux, parser, idb, sink, loop, detect>>

PatchNext == PatchDuration \/ PatchAgain

PatchSpec == PatchInit /\ [][PatchNext]_vars

\* ------------------------------------------------- the DownloadDB store
\* The last value of Date.now() the model lets the offscreen document see,
\* counted in milliseconds from its start.
MaxClock == 2

\* The store 'blobs' of DownloadDB holds, under the key mp4_<t>, the artifact
\* made for a session, or nothing.
EmptyStore == [t \in 0..MaxClock |-> "none"]

\* A session with no 'transmux' request made yet.
NoStoreRequest == [pc |-> "idle", key |-> -1, url |-> "none"]

IdbInit ==
    /\ activeDownloads = [u \in Urls |-> "absent"]
    /\ sess = [s \in Sessions |-> NewSession]
    /\ mux = NoRequest /\ parser = NoRequest /\ patch = NoRequest
    /\ sink = NoRequest /\ loop = NoRequest /\ detect = NoRequest
    /\ idb = [now |-> 0, blobs |-> EmptyStore, req |-> [s \in Sessions |-> NoStoreRequest]]

\* A millisecond passes.
Tick ==
    /\ idb.now < MaxClock
    /\ idb' = [idb EXCEPT !.now = @ + 1]
    /\ UNCHANGED <<activeDownloads, sess, mux, parser, patch, sink, loop, detect>>

\* mediaDetector.js:188-189: the 'transmux' handler for session s has its Blob,
\* takes key = `mp4_${Date.now()}` and starts storeBlobInIDB.
TransmuxKey(s) ==
    /\ idb.req[s].pc = "idle"
    /\ idb' = [idb EXCEPT !.req[s] = [@ EXCEPT !.pc = "store", !.key = idb.now]]
    /\ UNCHANGED <<activeDownloads, sess, mux, parser, patch, sink, loop, detect>>

\* storeBlobInIDB settles: put(blob, key) replaced what the key held and the
\* success response carries blobKey, on which downloadHLS sends
\* 'createUrlFromIDB' (line 413); or the transaction failed and the error
\* response sends downloadHLS to its fallback.
StorePut(s) ==
    /\ idb.req[s].pc = "store"
    /\ \/ idb' = [idb EXCEPT !.blobs[idb.req[s].key] = s, !.req[s].pc = "stored"]
       \/ idb' = [idb EXCEPT !.req[s].pc = "failed"]
    /\ UNCHANGED <<activeDownloads, sess, mux, parser, patch, sink, loop, detect>>

\* mediaDetector.js:99-112 and background.js:413-415: getBlobFromIDB(blobKey)
\* gives what the key holds now, the URL made of it is handed to
\* triggerDownload and the timer of line 415 is set; or the request is
\* rejected and downloadHLS goes to its fallback with no timer set.
CreateUrlFromIDB(s) ==
    /\ idb.req[s].pc = "stored"
    /\ \/ idb' = [idb EXCEPT !.req[s] = [@ EXCEPT !.pc = "url", !.url = idb.blobs[idb.req[s].key]]]
       \/ idb' = [idb EXCEPT !.req[s].pc = "failed"]
    /\ UNCHANGED <<activeDownloads, sess, mux, parser, patch, sink, loop, detect>>

\* background.js:415, 60 seconds later: {action: 'deleteBlob', key} is sent.
\* The listener of mediaDetector.js:67-211 has no branch for that action: it
\* returns false at line 210 and the store is as it was.
DeleteBlobMessage(s) ==
    /\ idb.req[s].pc = "url"
    /\ idb' = [idb EXCEPT !.req[s].pc = "deleteSent"]
    /\ UNCHANGED <<activeDownloads, sess, mux, parser, patch, sink, loop, detect>>

IdbNext ==
    \/ Tick
    \/ \E s \in Sessions : TransmuxKey(s)
    \/ \E s \in Sessions : StorePut(s)
    \/ \E s \in Sessions : CreateUrlFromIDB(s)
    \/ \E s \in Sessions : DeleteBlobMessage(s)

IdbSpec == IdbInit /\ [][IdbNext]_vars

\* Timers fire and messages are delivered: a step that can be taken is taken.
IdbLiveSpec == IdbSpec /\ WF_vars(IdbNext)

\* ------------------------------------------------- the network sniffer
\* The header events the sniffer is given.
MaxEvents == 3

\* The tabs whose requests are watched.
Tabs == {"t1", "t2"}

\* Lines 66-68 of GET_VIDEOS: the entries of stored, the first of each URL.
RECURSIVE Unique(_)
Unique(stored) ==
    IF stored = <<>> THEN <<>>
    ELSE LET first == Unique(SubSeq(stored, 1, Len(stored) - 1))
             v == stored[Len(stored)]
         IN IF \E j \in 1..Len(first) : first[j] = v THEN first ELSE Append(first, v)

\* detectedMedia (an entry is named by its url), the chrome.tabs.get callbacks
\* not yet run, by tab and url, the events so far, and what GET_VIDEOS sent last.
DetectInit ==
    /\ activeDownloads = [u \in Urls |-> "absent"]
    /\ sess = [s \in Sessions |-> NewSession]
    /\ mux = NoRequest /\ parser = NoRequest /\ patch = NoRequest /\ idb = NoRequest
    /\ sink = NoRequest /\ loop = NoRequest
    /\ detect = [detectedMedia |-> [tab \in Tabs |-> <<>>],
                 pending |-> [c \in Tabs \X Urls |-> 0],
                 events |-> 0,
                 videos |-> <<>>]

\* Lines 26-35: onHeadersReceived for a request of tab for url whose type is
\* a media type or not; when the list of the tab has no entry for the url,
\* chrome.tabs.get is called and its callback is yet to run.
HeadersReceived(tab, url) ==
    /\ detect.events < MaxEvents
    /\ \E type \in {"hls", "null"} :
         IF type # "null" /\ ~\E j \in 1..Len(detect.detectedMedia[tab]) :
                                    detect.detectedMedia[tab][j] = url
         THEN detect' = [detect EXCEPT !.events = @ + 1, !.pending[<<tab, url>>] = @ + 1]
         ELSE detect' = [detect EXCEPT !.events = @ + 1]
    /\ UNCHANGED <<activeDownloads, sess, mux, parser, patch, idb, sink, loop>>

\* Lines 35-52: the callback of chrome.tabs.get; with lastError set it
\* returns, otherwise it pushes the entry.
TabsGetCallback(tab, url) ==
    /\ detect.pending[<<tab, url>>] > 0
    /\ \E lastError \in BOOLEAN :
         IF lastError
         THEN detect' = [detect EXCEPT !.pending[<<tab, url>>] = @ - 1]
         ELSE detect' = [detect EXCEPT !.pending[<<tab, url>>] = @ - 1,
                                       !.detectedMedia[tab] = Append(@, url)]
    /\ UNCHANGED <<activeDownloads, sess, mux, parser, patch, idb, sink, loop>>

\* Lines 60-72: GET_VIDEOS for the active tab.
GetVideos(tab) ==
    /\ detect' = [detect EXCEPT !.videos = Unique(detect.detectedMedia[tab])]
    /\ UNCHANGED <<activeDownloads, sess, mux, parser, patch, idb, sink, loop>>

DetectNext ==
    \/ \E tab \in Tabs : \E url \in Urls : HeadersReceived(tab, url)
    \/ \E tab \in Tabs : \E url \in Urls : TabsGetCallback(tab, url)
    \/ \E tab \in Tabs : GetVideos(tab)

DetectSpec == DetectInit /\ [][DetectNext]_vars

\* ------------------------------------------------ the segment loop alone
\* The longest segment list the loop is given.
MaxList == 6

\* Line 349: Math.round((downloaded / n) * 100), the nearest integer, a half
\* going up.
Round(downloaded, n) == (200 * downloaded + n) \div (2 * n)

\* The test of line 350 without its second disjunct.
Throttle_NoFinal(pct, i, n) == pct % 5 = 0

\* Line 350: the test that lets a progress event out.
Throttle(pct, i, n) == pct % 5 = 0 \/ i = n - 1

\* notifyProgress (lines 458-460): the event is appended to those sent; at
\* names the place of the call, i the loop index at the call.
notifyProgress(l, percent, status, at) ==
    [l EXCEPT !.events = Append(@, [percent |-> percent, status |-> status,
                                   at |-> at, i |-> l.i])]

\* Lines 361-365 and the catch of lines 434-438: after the loop.
LoopExit(l) ==
    IF l.downloaded = 0
    THEN [notifyProgress(l, 0, "Error", "catch") EXCEPT !.pc = "done"]
    ELSE [notifyProgress(l, 100, "Downloading", "after") EXCEPT !.pc = "setup"]

\* Line 340, i++ and the test, and line 341: the next iteration or the exit.
LoopStep(l) ==
    LET l2 == [l EXCEPT !.i = @ + 1]
    IN IF l2.i >= l2.n \/ l2.cancelled THEN LoopExit(l2) ELSE l2

\* Lines 343-354: downloadSegment(segments[i], i) resolved; fetched records
\* that segmentChunks[i] was set.
SegmentResolved(l) ==
    LET l2 == [l EXCEPT !.downloaded = @ + 1, !.fetched = Append(@, TRUE)]
        pct == Round(l2.downloaded, l2.n)
    IN LoopStep(IF Throttle(pct, l2.i, l2.n)
                THEN notifyProgress(l2, pct, "Downloading", "loop")
                ELSE l2)

\* Lines 355-358: downloadSegment threw, the segment is skipped.
SegmentRejected(l) == LoopStep([l EXCEPT !.fetched = Append(@, FALSE)])

\* The loop of a session not cancelled so far, at its first await, for a
\* list of n segments.
LoopInit ==
    /\ activeDownloads = [u \in Urls |-> "absent"]
    /\ sess = [s \in Sessions |-> NewSession]
    /\ mux = NoRequest /\ parser = NoRequest /\ patch = NoRequest /\ idb = NoRequest
    /\ sink = NoRequest /\ detect = NoRequest
    /\ \E n \in 1..MaxList :
         loop = [pc |-> "loop", n |-> n, i |-> 0, downloaded |-> 0,
                 cancelled |-> FALSE, fetched |-> <<>>, events |-> <<>>]

\* The await of line 343 settles.
SegmentSettles ==
    /\ loop.pc = "loop"
    /\ \E ok \in BOOLEAN :
         loop' = IF ok THEN SegmentResolved(loop) ELSE SegmentRejected(loop)
    /\ UNCHANGED <<activeDownloads, sess, mux, parser, patch, idb, sink, detect>>

\* CANCEL_DOWNLOAD while a segment is in flight: the flag is set.
LoopCancel ==
    /\ loop.pc = "loop"
    /\ ~loop.cancelled
    /\ loop' = [loop EXCEPT !.cancelled = TRUE]
    /\ UNCHANGED <<activeDownloads, sess, mux, parser, patch, idb, sink, detect>>

LoopNext == SegmentSettles \/ LoopCancel

LoopSpec == LoopInit /\ [][LoopNext]_vars

\* ------------------------------------------------------------- claims
\* The run ended as a cancelled one: it saw the flag in the loop and then
\* emitted neither a download nor a failure notification.
EndedCancelled(r) ==
    /\ r.pc = "done"
    /\ r.loopExit = "cancelled"
    /\ r.downloads = <<>>
    /\ r.notifications = 0

\* A cancel was accepted while a segment of the run was in flight.
CancelledInLoop(r) == r.cancelAt >= 1

\* The chunks that were stored when that cancel was accepted.
StoredAtCancel(r) == Cardinality({j \in 1..(r.cancelAt - 1) : r.chunks[j] # NoChunk})

\* C1: a session whose cancel request was accepted in the segment loop, after
\* some but not all segments were fetched, never sends the transmux request,
\* never triggers a download, and ends cancelled.
C1_CancelMidwayStops ==
    \A s \in Sessions :
        LET r == sess[s]
        IN (CancelledInLoop(r) /\ StoredAtCancel(r) >= 1 /\ StoredAtCancel(r) < Len(r.segments))
           => /\ r.transmuxCalls = 0
              /\ r.downloads = <<>>
              /\ (r.pc = "done" => EndedCancelled(r))

\* A step starts a network attempt for a segment of session s.
AttemptStarted(s) ==
    /\ sess'[s].pc \in {"att1", "att2"}
    /\ (sess'[s].pc # sess[s].pc \/ sess'[s].i # sess[s].i)

\* C2: once a cancel request was accepted for a session, no step starts a new
\* segment network attempt for it.
C2_NoAttemptAfterCancel ==
    [][\A s \in Sessions : sess[s].cancelAt >= 0 => ~AttemptStarted(s)]_vars

\* C3: a session that left the segment loop because of cancellation emits no
\* failure notification and no error progress event, whatever it had fetched.
C3_CancelIsSilent ==
    \A s \in Sessions :
        sess[s].loopExit = "cancelled"
        => sess[s].notifications = 0 /\ sess[s].errorEvents = 0

\* C4: the payload of the fetch that was in flight when the cancel was accepted
\* is not stored among the chunks and is not sent to transmux or fallback.
C4_InFlightPayloadDiscarded ==
    \A s \in Sessions :
        LET r == sess[s]
        IN CancelledInLoop(r)
           => /\ r.chunks[r.cancelAt] = NoChunk
              /\ \A j \in 1..Len(r.base64Chunks) :
                    r.base64Chunks[j].uri # r.segments[r.cancelAt]

\* C5: a session whose manifest, after variant resolution, holds an
\* encryption-key directive has failed as DRM protected, with no segment fetch
\* started, no transmux or fallback request and no download.
C5_DrmFailsBeforeFetch ==
    \A s \in Sessions :
        LET r == sess[s]
        IN (/\ r.pc \notin {"idle", "native", "manifest", "variant"}
            /\ r.err # "Failed to fetch"       \* the resolution came to its end
            /\ HasKey(r.text))
           => /\ r.pc = "done" /\ r.result = "Failed" /\ r.err = "DRM Protected"
              /\ ~r.fetchStarted
              /\ r.transmuxCalls = 0 /\ r.fallbackCalls = 0
              /\ r.downloads = <<>>

\* A playlist with a key directive was resolved and failed the run as DRM protected.
C5_Witness ==
    \E s \in Sessions :
        /\ sess[s].pc = "done" /\ sess[s].err = "DRM Protected"
        /\ sess[s].text = MediaKey(MaxSeg)

\* C6: a session that left the segment loop with no segment fetched has ended
\* Failed ("Download failed" when the loop ran to its end) with no transmux or
\* fallback request and no download.
C6_ZeroSegmentsFails ==
    \A s \in Sessions :
        LET r == sess[s]
        IN (r.fetchStarted /\ r.pc \in PastLoop /\ r.downloaded = 0)
           => /\ r.pc = "done" /\ r.result = "Failed"
              /\ (r.loopExit = "exhausted" => r.err = "Download failed")
              /\ r.transmuxCalls = 0 /\ r.fallbackCalls = 0
              /\ r.downloads = <<>>

\* Every fetch of a full playlist failed.
C6_Witness ==
    \E s \in Sessions :
        /\ sess[s].pc = "done" /\ sess[s].loopExit = "exhausted"
        /\ Len(sess[s].segments) = MaxSeg /\ sess[s].downloaded = 0
        /\ sess[s].result = "Failed"

C8_TransmuxFailureFallsBack ==
    \A s \in Sessions :
        LET r == sess[s]
        IN r.transmuxRes = "failed"
           => /\ r.pc \in {"fallback", "done"}
              /\ r.fallbackCalls = 1
              /\ (r.result = "Failed" => r.fbRes = "rejected")
              /\ (r.fbRes = "success"
                  => /\ r.downloads = <<"ts">>
                     /\ r.result = "Completed"
                     /\ r.notifications = 0)

\* Transmux failed and the fallback artifact was downloaded.
C8_Witness ==
    \E s \in Sessions :
        /\ sess[s].transmuxRes = "failed" /\ sess[s].fbRes = "success"
        /\ sess[s].pc = "done" /\ sess[s].downloads = <<"ts">>

\* C9: a session in which neither the transmux request nor the fallback request
\* produced an artifact has ended Failed: an error was reported, no download.
C9_NoArtifactFails ==
    \A s \in Sessions :
        LET r == sess[s]
        IN (r.pc = "done" /\ r.transmuxRes = "failed"
                          /\ r.fbRes \in {"error", "rejected"})
           => /\ r.result = "Failed"
              /\ r.notifications >= 1 /\ r.errorEvents >= 1
              /\ r.downloads = <<>>

\* The session ended on one of the fatal outcomes: manifest fetch error, DRM,
\* empty segment list, zero fetched segments, or no artifact from either assembly.
FatalOutcome(r) ==
    /\ r.pc = "done"
    /\ \/ r.err \in {"Failed to fetch", "DRM Protected", "No segments found", "Download failed"}
       \/ (r.transmuxRes = "failed" /\ r.fbRes \in {"error", "rejected"})

\* C10: every fatal outcome of a session produces exactly one failure notification.
C10_OneNotificationPerFatal ==
    \A s \in Sessions : FatalOutcome(sess[s]) => sess[s].notifications = 1

\* sendToNative has settled with a failure: the run is past the native step
\* and the companion did not take the download.
NativeFailed(r) == r.pc \notin {"idle", "native"} /\ r.result # "Native"

\* downloadHLS was entered: the run is at one of its stages, or it ended there.
HlsStarted(r) ==
    /\ r.pc \in BeforeLoop \cup InFlight \cup PastLoop
    /\ r.result \in {"", "Failed", "Completed", "NoArtifact"}

\* C11: whenever the native send failed, for whatever reason, the segmented
\* download session of the (HLS) video was started.
C11_NativeFailureStartsSession ==
    \A s \in Sessions : NativeFailed(sess[s]) => HlsStarted(sess[s])

\* A step in which the first fetch of session s's segment settles.
Att1Settles(s) == sess[s].pc = "att1" /\ sess'[s].pc # "att1"

\* A step in which the retry of session s's segment settles.
Att2Settles(s) ==
    /\ sess[s].pc = "att2"
    /\ (sess'[s].pc # "att2" \/ sess'[s].i # sess[s].i)

\* The step leaves the segment of session s failed: not stored, not counted.
SegmentLeftFailed(s) ==
    /\ sess'[s].chunks[sess[s].i + 1] = NoChunk
    /\ sess'[s].downloaded = sess[s].downloaded
    /\ (sess'[s].pc \in InFlight => sess'[s].i > sess[s].i)

\* C16: the second fetch of a segment is started if and only if the first one
\* threw or returned a non-success status; a segment never gets a third
\* attempt; and when the second fails as well the segment fails.
C16_SecondAttemptIffFirstFails ==
    [][\A s \in Sessions :
         /\ sess[s].pc = "att1"
            => \A o \in FetchOutcomes :
                 (AfterAttempt1(sess[s], o).pc = "att2") <=> (o \in {"notok", "throw"})
         /\ Att1Settles(s)
            => /\ (sess'[s].pc = "att2") <=> (sess'[s].attempt1 = "failed")
               /\ (sess'[s].pc = "body") <=> (sess'[s].attempt1 = "ok")
               /\ sess'[s].i = sess[s].i
         /\ (sess'[s].pc = "att2" /\ sess[s].pc # "att2") => sess[s].pc = "att1"
         /\ (sess[s].pc = "att2" /\ sess'[s].pc = "att2") => sess'[s].i = sess[s].i
         /\ sess[s].pc = "att2"
            => \A o \in {"notok", "throw"} :
                 LET r2 == AfterAttempt2(sess[s], o, activeDownloads)
                 IN r2.chunks[sess[s].i + 1] = NoChunk /\ r2.downloaded = sess[s].downloaded
         /\ Att2Settles(s)
            => \/ sess'[s].pc = "body" /\ sess'[s].i = sess[s].i
               \/ SegmentLeftFailed(s)]_vars

\* The first fetch of the first segment failed and the retry is in flight.
C16_Witness ==
    \E s \in Sessions :
        /\ sess[s].pc = "att2" /\ sess[s].attempt1 = "failed"
        /\ sess[s].i = 0 /\ Len(sess[s].segments) = MaxSeg

\* C17: when the first fetch of a segment failed (a non-success status, or a
\* throw) and the retry returned success, every valid payload is stored at
\* the segment's index and counted.
C17_RetrySuccessStored ==
    \A s \in Sessions :
        LET r == sess[s]
        IN (r.pc = "body" /\ r.attempt1 = "failed")
           => \A buf \in Payloads(r.segments[r.i + 1]) :
                ~Rejected(buf)
                => LET r2 == AfterBody(r, buf, activeDownloads)
                   IN /\ r2.chunks[r.i + 1] = buf
                      /\ r2.downloaded = r.downloaded + 1
                      /\ \A j \in 1..Len(r.chunks) : j # r.i + 1 => r2.chunks[j] = r.chunks[j]

\* The last segment of a full playlist was stored after its first fetch had
\* failed.
C17_Witness ==
    \E s \in Sessions :
        LET r == sess[s]
        IN /\ r.pc = "setup" /\ r.loopExit = "exhausted" /\ r.attempt1 = "failed"
           /\ Len(r.segments) = MaxSeg
           /\ r.chunks[MaxSeg] \in Payloads(r.segments[MaxSeg])
           /\ r.downloaded = 1

\* The claim's condition on a body: empty, or shorter than 1000 bytes with
\* '<!doc' or '<html', in any letter case, inside its first 50 bytes.
ClaimedRejected(b) ==
    \/ b.byteLength = 0
    \/ /\ b.byteLength < 1000
       /\ b.tag \in {"<!doc", "<!DOC", "<html", "<Html"}
       /\ b.at + 5 <= 50

\* C18: a payload is rejected, neither stored nor counted, when it is empty or
\* when it is under 1000 bytes and its first 50 bytes hold '<!doc' or '<html'
\* in any letter case; every other payload, and so every payload of 1000 bytes
\* or more, is stored.
C18_PayloadValidation ==
    \A s \in Sessions :
        LET r == sess[s]
        IN r.pc = "body"
           => \A b \in Bodies :
                LET buf == Received(r.segments[r.i + 1], b)
                    r2 == AfterBody(r, buf, activeDownloads)
                IN /\ ClaimedRejected(b)
                      => r2.chunks[r.i + 1] = NoChunk /\ r2.downloaded = r.downloaded
                   /\ ~ClaimedRejected(b)
                      => r2.chunks[r.i + 1] = buf /\ r2.downloaded = r.downloaded + 1
                   /\ b.byteLength >= 1000 => r2.chunks[r.i + 1] = buf

\* The body of the last segment arrived on the first fetch and was rejected,
\* while a body of 1000 bytes that holds a marker was stored before it.
C18_Witness ==
    \E s \in Sessions :
        LET r == sess[s]
        IN /\ r.pc = "setup" /\ r.loopExit = "exhausted" /\ r.attempt1 = "ok"
           /\ Len(r.segments) = MaxSeg
           /\ r.chunks[MaxSeg] = NoChunk
           /\ r.chunks[1].byteLength = 1000 /\ r.chunks[1].html

\* The variant directives of a master manifest, by line number.
VariantLines(text) == {j \in 1..Len(text) : text[j].k = "#EXT-X-STREAM-INF"}

\* The variant the claim names: the first, in file order, of those whose
\* BANDWIDTH attribute is the largest.
ClaimedVariant(text) ==
    CHOOSE j \in VariantLines(text) :
        /\ \A h \in VariantLines(text) : text[h].v <= text[j].v
        /\ \A h \in VariantLines(text) : text[h].v = text[j].v => j <= h

\* C19: while the variant manifest of a master manifest is fetched, the variant
\* chosen is the first of those whose bandwidth is the maximum over all
\* variant directives.
C19_MaxBandwidthFirstWins ==
    \A s \in Sessions :
        LET r == sess[s]
        IN r.pc = "variant" => r.bestUrl = r.text[ClaimedVariant(r.text) + 1]

\* A step in which the fetch of the variant manifest of session s returns a text.
VariantArrives(s) ==
    /\ sess[s].pc = "variant"
    /\ sess'[s].pc # "variant"
    /\ sess'[s].text # sess[s].text

\* C20: when the variant manifest fetched for a master manifest is itself a
\* master manifest (with no key directive), the session fails with "No
\* segments found": no other manifest is fetched and no segment fetch starts.
C20_MasterOfMasterFails ==
    [][\A s \in Sessions :
         (VariantArrives(s) /\ IsMaster(sess'[s].text) /\ ~HasKey(sess'[s].text))
         => /\ sess'[s].pc = "done"
            /\ sess'[s].err = "No segments found"
            /\ ~sess'[s].fetchStarted]_vars

\* The 'transmux' request was handled up to the assembly or to an error.
Fed == mux.pc \in {"store", "done"} /\ mux.message.action = "transmux"

\* The arguments of the push calls of the feed, in call order.
PushArgs ==
    LET pushes == SelectSeq(mux.calls, LAMBDA c : c.op = "push")
    IN [k \in 1..Len(pushes) |-> pushes[k].arg]

\* The bytes of the chunks of array, by ascending segment index.
Ascending(array) ==
    LET idx == {j \in 1..Len(array) : array[j] # NoChunk}
        nth(k) == CHOOSE j \in idx : Cardinality({h \in idx : h < j}) = k - 1
    IN [k \in 1..Cardinality(idx) |-> array[nth(k)].bytes]

\* C12: the chunks are pushed into the transmuxer, and concatenated by the
\* fallback, by ascending segment index, whichever segments were skipped.
C12_FeedInIndexOrder ==
    /\ Fed => PushArgs = Ascending(mux.array)
    /\ (mux.pc = "done" /\ mux.message.action = "createFallbackUrl" /\ mux.response = "success")
       => [j \in 1..Len(mux.finalData) |-> mux.finalData[j].id] = Ascending(mux.array)

\* The middle segment of three was skipped, the other two were pushed.
C12_Witness ==
    /\ Fed /\ Len(mux.array) = MaxSeg
    /\ mux.array[1] # NoChunk /\ mux.array[2] = NoChunk /\ mux.array[MaxSeg] # NoChunk
    /\ Len(PushArgs) >= 2

\* The initialization segment of the first event that carried one; 0 if none did.
FirstInit(events) ==
    LET with == {e \in 1..Len(events) : events[e].initSegment # 0}
    IN IF with = {} THEN 0
       ELSE events[CHOOSE e \in with : \A h \in with : e <= h].initSegment

\* C13: the initialization segment retained by a feed is the first one the
\* library emitted, whatever it emitted later, and it is the header of the output.
C13_FirstInitSegmentKept ==
    Fed => /\ mux.initSegment = FirstInit(mux.events)
           /\ \A j \in 1..Len(mux.finalData) :
                mux.finalData[j].part = "init"
                => j = 1 /\ mux.finalData[j].id = FirstInit(mux.events)

\* Two events carried an initialization segment and the output was assembled.
C13_Witness ==
    /\ Fed /\ mux.pc = "store"
    /\ \E e, h \in 1..Len(mux.events) :
         e < h /\ mux.events[e].initSegment # 0 /\ mux.events[h].initSegment # 0

\* C14: a feed that produced no media fragment ends with the error response,
\* also when an initialization segment was emitted.
C14_NoFragmentsFails ==
    (/\ mux.pc = "done" /\ mux.message.action = "transmux"
     /\ \A e \in 1..Len(mux.events) : mux.events[e].data = 0)
    => mux.response = "error"

\* The media data of the events of the feed, in emission order.
Emitted ==
    LET with == SelectSeq(mux.events, LAMBDA e : e.data # 0)
    IN [j \in 1..Len(with) |-> with[j].data]

\* C15: a push that throws does not end the feed: every chunk is pushed, in
\* order, then the transmuxer is flushed, once; the media fragments emitted are
\* all collected in emission order and, unless the flush throws, they are the
\* media of the output in that order.
C15_RejectedChunkSkipped ==
    Fed => /\ Len(mux.calls) = Len(mux.chunks) + 1
           /\ \A k \in 1..Len(mux.chunks) : mux.calls[k] = [op |-> "push", arg |-> mux.chunks[k]]
           /\ mux.calls[Len(mux.calls)].op = "flush"
           /\ mux.segments = Emitted
           /\ (Len(mux.calls) \notin mux.thrown /\ Emitted # <<>>)
              => SelectSeq(mux.finalData, LAMBDA p : p.part = "data")
                 = [j \in 1..Len(Emitted) |-> [part |-> "data", id |-> Emitted[j], patched |-> FALSE]]

\* The push of the first of three chunks threw; the later pushes emitted media
\* data and the output holds it.
C15_Witness ==
    /\ Fed /\ mux.pc = "store"
    /\ Len(mux.chunks) = MaxSeg
    /\ mux.thrown = {1}
    /\ Len(mux.segments) = 2

\* The lines of a playlist that are neither blank nor comments (directives),
\* by line number.
ClaimedSegmentLines(text) ==
    {j \in 1..Len(text) :
        text[j].k \notin {"", "#EXTM3U", "#EXTINF", "#EXT-X-KEY", "#EXT-X-STREAM-INF"}}

\* segments lists the values of those lines, one entry a line, in file order.
InFileOrder(segments, text) ==
    LET P == ClaimedSegmentLines(text)
    IN /\ Len(segments) = Cardinality(P)
       /\ \A p \in P : segments[Cardinality({q \in P : q < p}) + 1] = text[p].v

\* The run r as the manifest it waits for arrives with text.
ManifestArrived(r, text, reg) ==
    IF r.pc = "manifest" THEN AfterManifest(r, text, reg)
    ELSE Resolve([r EXCEPT !.bestUrl = Blank], text, reg)

\* C21: when the manifest a session resolves (no key directive in it, no
\* variant left to fetch) has no line that is neither blank nor a comment, the
\* session ends with "No segments found" and no segment fetch was started;
\* otherwise its segment list holds those lines in file order.
C21_NoSegmentsOrFileOrder ==
    \A s \in Sessions : \A text \in FirstManifests :
        LET r == sess[s]
            r2 == ManifestArrived(r, text, activeDownloads)
        IN (/\ r.pc \in BeforeLoop
            /\ (r.pc = "variant" => text \in Manifests)
            /\ r2.pc # "variant"
            /\ ~HasKey(text))
           => IF ClaimedSegmentLines(text) = {}
              THEN r2.pc = "done" /\ r2.err = "No segments found" /\ ~r2.fetchStarted
              ELSE InFileOrder(r2.segments, text)

\* A session failed on a playlist without segment lines, and had fetched none.
C21_Witness ==
    \E s \in Sessions :
        /\ sess[s].err = "No segments found"
        /\ ClaimedSegmentLines(sess[s].text) = {}
        /\ ~sess[s].fetchStarted

\* The duration directives of value d, counted and weighed, for d in D.
RECURSIVE WeightedCount(_, _)
WeightedCount(text, D) ==
    IF D = {} THEN 0
    ELSE LET d == CHOOSE x \in D : TRUE
         IN d * Cardinality({j \in 1..Len(text) : text[j] = ExtInf(d)})
            + WeightedCount(text, D \ {d})

\* C22: the total duration the parser returns is the sum of the values of the
\* duration directives whose value is a number, 12 for three segments of 4
\* seconds; a directive whose value is no number adds nothing and the parser
\* still returns.
C22_TotalDurationIsSum ==
    parser.pc = "done"
    => /\ parser.totalDuration = WeightedCount(parser.text, DurationValues)
       /\ (parser.text = Media(3) => parser.totalDuration = 12)

\* The parser returned a positive total for a playlist that has a directive
\* with no number in it next to directives with one.
C22_Witness ==
    /\ parser.pc = "done"
    /\ \E j \in 1..Len(parser.text) : parser.text[j] = ExtInfText
    /\ parser.totalDuration = 6

\* Where the movie-header tag occurs in a buffer (0-based), and the first place.
TagPlaces(data) == {i \in 0..(Len(data) - 4) : SubSeq(data, i + 1, i + 4) = mvhd}
TagPlace(data) == CHOOSE i \in TagPlaces(data) : \A h \in TagPlaces(data) : i <= h

\* The header has its version byte in the buffer.
HasVersion(data) == TagPlaces(data) # {} /\ TagPlace(data) + 4 < Len(data)
VersionOf(data) == data[TagPlace(data) + 5]

\* The duration field of the container format: after the tag, one byte of
\* version, three of flags, the creation and modification times (4 bytes each
\* in version 0, 8 bytes each in version 1) and 4 bytes of timescale; 4 bytes
\* wide in version 0, 8 in version 1.  0-based offset, width, and the 1-based
\* positions of the buffer it covers.
FieldOffset(data) == TagPlace(data) + 4 + 4 + (IF VersionOf(data) = 1 THEN 16 ELSE 8) + 4
FieldWidth(data) == IF VersionOf(data) = 1 THEN 8 ELSE 4
FieldPlaces(data) ==
    IF HasVersion(data)
    THEN (FieldOffset(data) + 1)..(FieldOffset(data) + FieldWidth(data))
    ELSE {}

\* The four bytes before the duration field, a byte the buffer does not hold
\* read as 0.
TimescaleOf(data) ==
    [k \in 1..4 |-> IF FieldOffset(data) - 4 + k <= Len(data)
                     THEN data[FieldOffset(data) - 4 + k] ELSE 0]

\* The number a big-endian field holds, as 8 bytes.
Decoded(field) == [k \in 1..(8 - Len(field)) |-> 0] \o field

\* C23: when the buffer holds a movie header of version 0 or 1 with its whole
\* duration field and a timescale that is not 0, the duration field of the
\* patched buffer decodes to round(durationSeconds * timescale).
C23_DurationFieldExact ==
    patch.pc = "returned"
    => LET data == patch.initSegment
       IN (/\ HasVersion(data)
           /\ VersionOf(data) \in {0, 1}
           /\ FieldOffset(data) + FieldWidth(data) <= Len(data)
           /\ TimescaleOf(data) # <<0, 0, 0, 0>>)
          => /\ Len(patch.result) = Len(data)
             /\ Decoded(SubSeq(patch.result, FieldOffset(data) + 1,
                                FieldOffset(data) + FieldWidth(data)))
                  = newDuration(patch.durationSec, TimescaleOf(data))

\* C24: the patched buffer is as long as the input and differs from it only
\* within the duration field, also when the buffer ends inside the field or
\* before it.
C24_OnlyDurationFieldChanges ==
    patch.pc = "returned"
    => /\ Len(patch.result) = Len(patch.initSegment)
       /\ \A j \in 1..Len(patch.initSegment) :
             patch.result[j] # patch.initSegment[j] => j \in FieldPlaces(patch.initSegment)

\* A buffer that ends inside its duration field was patched in the part it holds.
C24_Witness ==
    /\ patch.pc = "returned"
    /\ HasVersion(patch.initSegment)
    /\ Len(patch.initSegment) < FieldOffset(patch.initSegment) + FieldWidth(patch.initSegment)
    /\ patch.result # patch.initSegment

\* C25: when the tag does not occur in the buffer, or the timescale read from
\* the buffer is 0, patchDuration returns the bytes it was given.
C25_NoTagOrZeroTimescaleUnchanged ==
    patch.pc = "returned"
    => LET data == patch.initSegment
       IN (\/ TagPlaces(data) = {}
           \/ HasVersion(data) /\ TimescaleOf(data) = <<0, 0, 0, 0>>)
          => patch.result = data

\* A whole header with timescale 0 came back as it was.
C25_Witness ==
    /\ patch.pc = "returned"
    /\ HasVersion(patch.initSegment)
    /\ FieldOffset(patch.initSegment) + FieldWidth(patch.initSegment) <= Len(patch.initSegment)
    /\ TimescaleOf(patch.initSegment) = <<0, 0, 0, 0>>
    /\ patch.result = patch.initSegment

\* C26: patching what patchDuration returned, with the same duration, returns
\* the same bytes again.
C26_PatchIdempotent ==
    patch.pc = "twice" => patch.again = patch.result

\* The first patch changed the buffer and the second one left it.
C26_Witness ==
    /\ patch.pc = "twice"
    /\ patch.result # patch.initSegment
    /\ patch.again = patch.result

\* C27: the chunks the offscreen document decodes from a request are, in
\* number, order and bytes, the chunks downloadHLS held in its array when it
\* built the request (the holes of failed segments left out).
C27_ChunkRoundTrip ==
    mux.pc \in {"store", "done"}
    => LET sent == {j \in 1..Len(mux.array) : mux.array[j] # NoChunk}
       IN /\ Len(mux.chunks) = Cardinality(sent)
          /\ \A j \in sent :
                mux.chunks[Cardinality({h \in sent : h < j}) + 1] = mux.array[j].bytes

\* A request made of chunks of two, three and four bytes, taken from an array
\* with a hole in it, was decoded.
C27_Witness ==
    /\ mux.pc = "done"
    /\ \E j \in 1..Len(mux.array) : mux.array[j] = NoChunk
    /\ {Len(mux.chunks[k]) : k \in 1..Len(mux.chunks)} \in {{2, 3}, {3, 4}, {2, 4}}

\* C28: two sessions never hold the same store key, and the artifact a
\* session gets for its key is the one made for it.
C28_StoreKeysDistinct ==
    /\ \A s, t \in Sessions :
          (s # t /\ idb.req[s].key # -1 /\ idb.req[t].key # -1)
          => idb.req[s].key # idb.req[t].key
    /\ \A s \in Sessions : idb.req[s].pc \in {"url", "deleteSent"} => idb.req[s].url = s

\* C30: whatever is stored under a key is deleted from the store later on.
C30_StoredEventuallyDeleted ==
    \A t \in 0..MaxClock : (idb.blobs[t] # "none") ~> (idb.blobs[t] = "none")

\* C29: once a cancel request was accepted for a session, the flag that the
\* checkpoints still ahead of it read (line 341 at the top of the loop, line
\* 313 in downloadSegment) is true.
C29_CancelFlagMonotone ==
    \A s \in Sessions :
        (sess[s].cancelAt # -1 /\ sess[s].pc \in BeforeLoop \cup InFlight)
        => activeDownloads[sess[s].id] = "cancelled"

\* C34: while a session is between line 242 and its finally block, with
\* checkpoints still ahead of it, activeDownloads holds an entry for its id,
\* and no session ends on the TypeError of reading a missing entry.
C34_RegistryEntryPresent ==
    \A s \in Sessions :
        /\ sess[s].pc \in BeforeLoop \cup InFlight => activeDownloads[sess[s].id] # "absent"
        /\ sess[s].err # "TypeError"

\* C36: the list of a tab never holds two entries with the same URL.
C36_NoDuplicateUrls ==
    \A tab \in Tabs :
        \A j, h \in 1..Len(detect.detectedMedia[tab]) :
            j # h => detect.detectedMedia[tab][j] # detect.detectedMedia[tab][h]

LocatorsOf(s) == {l \in Locators : l.s = s}

\* C35: a run never has a download asked for both of its locators; a
\* download is asked for only with a segment fetched; while a download is
\* asked for and the sink has not put its question, the override of its
\* locator is registered; and the answer to the question is the name the
\* run gave for that locator.
C35_OneDownloadNamedByOverride ==
    \A s \in Sessions :
        /\ Cardinality({l \in LocatorsOf(s) : Entry(sink, l).download # "none"}) <= 1
        /\ \A l \in LocatorsOf(s) :
              /\ Entry(sink, l).download # "none" => sess[s].downloaded >= 1
              /\ Entry(sink, l).download \in {"requested", "started"} /\ ~Entry(sink, l).asked
                    => Entry(sink, l).filename = NameFor(sess[s], l.kind)
              /\ Entry(sink, l).asked => Entry(sink, l).suggested = NameFor(sess[s], l.kind)

\* The sink has put its question for the fallback locator of a run that
\* first called triggerDownload without a url, and was given the name.
C35_Witness ==
    \E l \in LocatorsOf("s1") :
        /\ l.kind = "ts"
        /\ Entry(sink, l).asked /\ Entry(sink, l).suggested # <<>>
        /\ Len(sess["s1"].downloads) = 2

\* C33: the name registered for a fallback locator ends with the
\* transport-stream extension.
C33_FallbackNameEndsWithTs ==
    \A l \in Locators :
        l.kind = "ts" /\ Entry(sink, l).filename # <<>>
            => endsWith(Entry(sink, l).filename, ".ts")

\* C31: every blob URL made for a run is revoked in the end.
C31_LocatorEventuallyRevoked ==
    \A l \in Locators : (Entry(sink, l).blob = "live") ~> (Entry(sink, l).blob = "revoked")
====
